---- MODULE Spec2Model ----
(***************************************************************************)
(* Model of techniki/src/loan_approver.py (LoanApprover),                  *)
(* techniki/src/loan_manager.py (LoanManager),                             *)
(* techniki/src/discount_calculator.py (DiscountCalculator) and            *)
(* pokrycie2/src/grade_calculator.py (GradeCalculator).                    *)
(*                                                                         *)
(* The classes are collections of functions over their arguments and the   *)
(* configuration they hold.  The state is that configuration, the call     *)
(* being made (method and arguments, drawn by Init from the input domains) *)
(* and its outcome (pending, a returned value or a raised exception).      *)
(* One action per public method, which carries the call out.  Spec makes   *)
(* one call on freshly constructed objects; SpecRepeat lets the caller go  *)
(* on and make further calls on the same objects.  SpecBorrow and          *)
(* SpecRenew add a caller that keeps a borrower's account, respectively a  *)
(* loan, and updates it only when the LoanManager allows the request.      *)
(*                                                                         *)
(* Numbers.  Arguments are drawn from integers.  Python's true division of *)
(* two integers is the correctly rounded quotient, and the literals 0.4    *)
(* and 0.4 / 2 are the doubles nearest to 2/5 and 1/5; for integers of the *)
(* magnitude used here (far below 2^50) the comparison                     *)
(* existing_debt / annual_income <= 0.4 on doubles has the same outcome as *)
(* the comparison of the exact quotient with 2/5.  Quotients are therefore *)
(* kept as exact fractions num/den with den > 0.                           *)
(***************************************************************************)
EXTENDS Integers, FiniteSets, Sequences, TLC

VARIABLES
    min_credit_score,   \* LoanApprover.min_credit_score
    min_income,         \* LoanApprover.min_income
    max_debt_ratio,     \* LoanApprover.max_debt_ratio (a fraction)
    LOAN_PERIODS,       \* LoanManager.LOAN_PERIODS
    MAX_BOOKS,          \* LoanManager.MAX_BOOKS
    MAX_RENEWALS,       \* LoanManager.MAX_RENEWALS
    call,               \* the call: method name and arguments
    result,             \* its outcome: pending, returned value or exception
    calls_issued,       \* number of calls made on the objects so far
    borrower,           \* a borrower's account: user type and books held
    loan                \* a loan: book type, days, renewals, request flag

config == <<min_credit_score, min_income, max_debt_ratio,
            LOAN_PERIODS, MAX_BOOKS, MAX_RENEWALS>>

vars == <<min_credit_score, min_income, max_debt_ratio,
          LOAN_PERIODS, MAX_BOOKS, MAX_RENEWALS, call, result,
          calls_issued, borrower, loan>>

\* the caller's records, which no method of the classes reads or writes
ledger == <<borrower, loan>>

----------------------------------------------------------------------------
(* Outcomes of a call *)

Return(v) == [kind |-> "return", value |-> v]

Raise(e) == [kind |-> "raise", value |-> e]

----------------------------------------------------------------------------
(* Floating-point values that occur: exact fractions and float('inf') *)

Finite(n, d) == [kind |-> "fin", num |-> n, den |-> d]

Inf == [kind |-> "inf", num |-> 1, den |-> 0]

ZeroDivision == [kind |-> "err", num |-> 0, den |-> 0]

\* a / b: raises ZeroDivisionError when b is 0
TrueDiv(a, b) ==
    IF b = 0 THEN ZeroDivision
    ELSE IF b > 0 THEN Finite(a, b)
    ELSE Finite(-a, -b)

\* x <= y on floats (no NaN arises: inf is never divided)
LessEq(x, y) ==
    IF x.kind = "inf" THEN y.kind = "inf"
    ELSE IF y.kind = "inf" THEN TRUE
    ELSE x.num * y.den <= y.num * x.den

\* r / 2
HalfOf(r) == Finite(r.num, r.den * 2)

----------------------------------------------------------------------------
(* Input domains *)

MaxScoreStep == 11

MaxIncomeStep == 7

MaxDebtStep == 6

\* credit scores: the documented range 300..850 in steps of 50, the values
\* around both thresholds, and values outside the documented range
CreditScores ==
    {300 + 50 * k : k \in 0..MaxScoreStep}
        \cup {-1, 0, 299, 600, 649, 650, 651, 700, 749, 750, 751, 780, 851}

\* annual incomes: steps of 10000 and the values around 0, 30000 and 60000
Incomes ==
    {10000 * k : k \in 0..MaxIncomeStep}
        \cup {-10000, -1, 1, 29999, 30000, 30001, 59999, 60000, 60001}

\* existing debts: steps of 5000 and the values that put the ratio at, just
\* below and just above 0.4 and 0.2 for the incomes above
Debts ==
    {5000 * k : k \in 0..MaxDebtStep}
        \cup {-5000, -4000, -1, 1, 6000, 10500, 11999, 12000, 12001,
              14000, 14001, 24000, 24001, 28000, 28001}

----------------------------------------------------------------------------
(* LoanApprover *)

Approver == [min_credit_score |-> min_credit_score,
             min_income       |-> min_income,
             max_debt_ratio   |-> max_debt_ratio]

DebtRatio_ZeroForZeroIncome(annual_income, existing_debt) ==
    IF annual_income = 0 THEN Finite(0, 1)
    ELSE TrueDiv(existing_debt, annual_income)

DebtRatio_Unguarded(annual_income, existing_debt) ==
    TrueDiv(existing_debt, annual_income)

DebtRatio(annual_income, existing_debt) ==
    IF annual_income = 0 THEN Inf
    ELSE TrueDiv(existing_debt, annual_income)

HighCreditCase_IncomeChecked(self, annual_income, debt_ratio) ==
    IF annual_income >= self.min_income
       /\ LessEq(debt_ratio, self.max_debt_ratio)
    THEN Return("Approved")
    ELSE Return("Manual Review")

HighCreditCase_HalfRatio(self, annual_income, debt_ratio) ==
    IF LessEq(debt_ratio, HalfOf(self.max_debt_ratio))
    THEN Return("Approved")
    ELSE Return("Manual Review")

HighCreditCase(self, annual_income, debt_ratio) ==
    IF LessEq(debt_ratio, self.max_debt_ratio)
    THEN Return("Approved")
    ELSE Return("Manual Review")

MediumCreditCase_Or(self, annual_income, debt_ratio) ==
    IF annual_income >= self.min_income
       \/ LessEq(debt_ratio, self.max_debt_ratio)
    THEN Return("Approved")
    ELSE Return("Manual Review")

MediumCreditCase(self, annual_income, debt_ratio) ==
    IF annual_income >= self.min_income
       /\ LessEq(debt_ratio, self.max_debt_ratio)
    THEN Return("Approved")
    ELSE Return("Manual Review")

LowCreditCase_FullRatio(self, annual_income, debt_ratio) ==
    IF annual_income >= 2 * self.min_income
       /\ LessEq(debt_ratio, self.max_debt_ratio)
    THEN Return("Manual Review")
    ELSE Return("Rejected")

LowCreditCase(self, annual_income, debt_ratio) ==
    IF annual_income >= 2 * self.min_income
       /\ LessEq(debt_ratio, HalfOf(self.max_debt_ratio))
    THEN Return("Manual Review")
    ELSE Return("Rejected")

approve_loan_EmploymentInLowCaseOnly(self, credit_score, annual_income, existing_debt, is_employed) ==
    LET debt_ratio == DebtRatio(annual_income, existing_debt) IN
    IF debt_ratio.kind = "err" THEN Raise("ZeroDivisionError")
    ELSE IF credit_score >= 750
         THEN HighCreditCase(self, annual_income, debt_ratio)
    ELSE IF credit_score >= self.min_credit_score
         THEN MediumCreditCase(self, annual_income, debt_ratio)
    ELSE IF ~is_employed THEN Return("Rejected")
    ELSE LowCreditCase(self, annual_income, debt_ratio)

approve_loan(self, credit_score, annual_income, existing_debt, is_employed) ==
    LET debt_ratio == DebtRatio(annual_income, existing_debt) IN
    IF debt_ratio.kind = "err" THEN Raise("ZeroDivisionError")
    ELSE IF ~is_employed THEN Return("Rejected")
    ELSE IF credit_score >= 750
         THEN HighCreditCase(self, annual_income, debt_ratio)
    ELSE IF credit_score >= self.min_credit_score
         THEN MediumCreditCase(self, annual_income, debt_ratio)
    ELSE LowCreditCase(self, annual_income, debt_ratio)

----------------------------------------------------------------------------
(* LoanManager *)

MaxLoanDays == 32

MaxBorrowed == 17

MaxAdditional == 16

\* the three known book types and one that LOAN_PERIODS does not hold
BookTypes == {"regular", "popular", "reference", "magazine"}

\* the three known user types and one that MAX_BOOKS does not hold
UserTypes == {"regular", "premium", "researcher", "guest"}

LoanDays == -2..MaxLoanDays

BorrowedCounts == -2..MaxBorrowed

AdditionalCounts == -2..MaxAdditional

Manager == [LOAN_PERIODS |-> LOAN_PERIODS,
            MAX_BOOKS    |-> MAX_BOOKS,
            MAX_RENEWALS |-> MAX_RENEWALS]

validate_loan_days_MaxExclusive(self, book_type, loan_days) ==
    IF book_type \notin DOMAIN self.LOAN_PERIODS THEN Raise("ValueError")
    ELSE LET min_days == self.LOAN_PERIODS[book_type].min
             max_days == self.LOAN_PERIODS[book_type].max
         IN IF loan_days < min_days \/ loan_days >= max_days
            THEN Return(FALSE)
            ELSE Return(TRUE)

validate_loan_days(self, book_type, loan_days) ==
    IF book_type \notin DOMAIN self.LOAN_PERIODS THEN Raise("ValueError")
    ELSE LET min_days == self.LOAN_PERIODS[book_type].min
             max_days == self.LOAN_PERIODS[book_type].max
         IN IF loan_days < min_days \/ loan_days > max_days
            THEN Return(FALSE)
            ELSE Return(TRUE)

validate_book_quantity_LimitExclusive(self, user_type, current_borrowed, additional_books) ==
    IF user_type \notin DOMAIN self.MAX_BOOKS THEN Raise("ValueError")
    ELSE IF current_borrowed < 0 THEN Raise("ValueError")
    ELSE IF additional_books <= 0 THEN Raise("ValueError")
    ELSE LET max_allowed == self.MAX_BOOKS[user_type]
         IN IF current_borrowed + additional_books >= max_allowed
            THEN Return(FALSE)
            ELSE Return(TRUE)

validate_book_quantity_ZeroAccepted(self, user_type, current_borrowed, additional_books) ==
    IF user_type \notin DOMAIN self.MAX_BOOKS THEN Raise("ValueError")
    ELSE IF current_borrowed < 0 THEN Raise("ValueError")
    ELSE IF additional_books < 0 THEN Raise("ValueError")
    ELSE LET max_allowed == self.MAX_BOOKS[user_type]
         IN IF current_borrowed + additional_books > max_allowed
            THEN Return(FALSE)
            ELSE Return(TRUE)

validate_book_quantity_NegativeBorrowedAccepted(self, user_type, current_borrowed, additional_books) ==
    IF user_type \notin DOMAIN self.MAX_BOOKS THEN Raise("ValueError")
    ELSE IF additional_books <= 0 THEN Raise("ValueError")
    ELSE LET max_allowed == self.MAX_BOOKS[user_type]
         IN IF current_borrowed + additional_books > max_allowed
            THEN Return(FALSE)
            ELSE Return(TRUE)

validate_book_quantity_AdditionalIgnored(self, user_type, current_borrowed, additional_books) ==
    IF user_type \notin DOMAIN self.MAX_BOOKS THEN Raise("ValueError")
    ELSE IF current_borrowed < 0 THEN Raise("ValueError")
    ELSE IF additional_books <= 0 THEN Raise("ValueError")
    ELSE LET max_allowed == self.MAX_BOOKS[user_type]
         IN IF current_borrowed >= max_allowed
            THEN Return(FALSE)
            ELSE Return(TRUE)

validate_book_quantity(self, user_type, current_borrowed, additional_books) ==
    IF user_type \notin DOMAIN self.MAX_BOOKS THEN Raise("ValueError")
    ELSE IF current_borrowed < 0 THEN Raise("ValueError")
    ELSE IF additional_books <= 0 THEN Raise("ValueError")
    ELSE LET max_allowed == self.MAX_BOOKS[user_type]
         IN IF current_borrowed + additional_books > max_allowed
            THEN Return(FALSE)
            ELSE Return(TRUE)

MaxDaysLoaned == 31

MaxRenewalDays == 16

MaxPreviousRenewals == 3

DaysLoaned == -1..MaxDaysLoaned

RenewalDays == -1..MaxRenewalDays

PreviousRenewals == -1..MaxPreviousRenewals

can_renew_loan_RequestIgnored(self, book_type, days_already_loaned, renewal_days, previous_renewals, is_requested) ==
    IF book_type \notin DOMAIN self.LOAN_PERIODS THEN Raise("ValueError")
    ELSE IF days_already_loaned < 0 THEN Raise("ValueError")
    ELSE IF renewal_days <= 0 THEN Raise("ValueError")
    ELSE IF previous_renewals < 0 THEN Raise("ValueError")
    ELSE IF previous_renewals >= self.MAX_RENEWALS THEN Return(FALSE)
    ELSE LET max_days == self.LOAN_PERIODS[book_type].max
         IN IF days_already_loaned + renewal_days > max_days
            THEN Return(FALSE)
            ELSE Return(TRUE)

can_renew_loan_MinPeriodRequired(self, book_type, days_already_loaned, renewal_days, previous_renewals, is_requested) ==
    IF book_type \notin DOMAIN self.LOAN_PERIODS THEN Raise("ValueError")
    ELSE IF days_already_loaned < 0 THEN Raise("ValueError")
    ELSE IF renewal_days <= 0 THEN Raise("ValueError")
    ELSE IF previous_renewals < 0 THEN Raise("ValueError")
    ELSE IF is_requested THEN Return(FALSE)
    ELSE IF previous_renewals >= self.MAX_RENEWALS THEN Return(FALSE)
    ELSE LET min_days == self.LOAN_PERIODS[book_type].min
             max_days == self.LOAN_PERIODS[book_type].max
         IN IF days_already_loaned + renewal_days > max_days
               \/ days_already_loaned + renewal_days < min_days
            THEN Return(FALSE)
            ELSE Return(TRUE)

can_renew_loan_RequestCheckedFirst(self, book_type, days_already_loaned, renewal_days, previous_renewals, is_requested) ==
    IF is_requested THEN Return(FALSE)
    ELSE IF book_type \notin DOMAIN self.LOAN_PERIODS THEN Raise("ValueError")
    ELSE IF days_already_loaned < 0 THEN Raise("ValueError")
    ELSE IF renewal_days <= 0 THEN Raise("ValueError")
    ELSE IF previous_renewals < 0 THEN Raise("ValueError")
    ELSE IF previous_renewals >= self.MAX_RENEWALS THEN Return(FALSE)
    ELSE LET max_days == self.LOAN_PERIODS[book_type].max
         IN IF days_already_loaned + renewal_days > max_days
            THEN Return(FALSE)
            ELSE Return(TRUE)

can_renew_loan_ExtraRenewal(self, book_type, days_already_loaned, renewal_days, previous_renewals, is_requested) ==
    IF book_type \notin DOMAIN self.LOAN_PERIODS THEN Raise("ValueError")
    ELSE IF days_already_loaned < 0 THEN Raise("ValueError")
    ELSE IF renewal_days <= 0 THEN Raise("ValueError")
    ELSE IF previous_renewals < 0 THEN Raise("ValueError")
    ELSE IF is_requested THEN Return(FALSE)
    ELSE IF previous_renewals > self.MAX_RENEWALS THEN Return(FALSE)
    ELSE LET max_days == self.LOAN_PERIODS[book_type].max
         IN IF days_already_loaned + renewal_days > max_days
            THEN Return(FALSE)
            ELSE Return(TRUE)

can_renew_loan(self, book_type, days_already_loaned, renewal_days, previous_renewals, is_requested) ==
    IF book_type \notin DOMAIN self.LOAN_PERIODS THEN Raise("ValueError")
    ELSE IF days_already_loaned < 0 THEN Raise("ValueError")
    ELSE IF renewal_days <= 0 THEN Raise("ValueError")
    ELSE IF previous_renewals < 0 THEN Raise("ValueError")
    ELSE IF is_requested THEN Return(FALSE)
    ELSE IF previous_renewals >= self.MAX_RENEWALS THEN Return(FALSE)
    ELSE LET max_days == self.LOAN_PERIODS[book_type].max
         IN IF days_already_loaned + renewal_days > max_days
            THEN Return(FALSE)
            ELSE Return(TRUE)

MaxDaysOverdue == 22

DaysOverdue == -2..MaxDaysOverdue

\* x < y on floats
Less(x, y) == ~LessEq(y, x)

\* x * n for a float x and an integer n
Times(x, n) == Finite(x.num * n, x.den)

\* min(a, b): b when b < a, otherwise a
Min(a, b) == IF Less(b, a) THEN b ELSE a

calculate_fine_TypeCheckedFirst(self, days_overdue, book_type) ==
    IF book_type \notin DOMAIN self.LOAN_PERIODS THEN Raise("ValueError")
    ELSE IF days_overdue <= 0 THEN Return(Finite(0, 1))
    ELSE LET fine_rates == [regular   |-> Finite(1, 2),
                            popular   |-> Finite(1, 1),
                            reference |-> Finite(2, 1)]
             daily_rate == fine_rates[book_type]
             max_fine == Times(daily_rate, 10)
             fine == Times(daily_rate, days_overdue)
         IN Return(Min(fine, max_fine))

calculate_fine_Uncapped(self, days_overdue, book_type) ==
    IF days_overdue <= 0 THEN Return(Finite(0, 1))
    ELSE IF book_type \notin DOMAIN self.LOAN_PERIODS THEN Raise("ValueError")
    ELSE LET fine_rates == [regular   |-> Finite(1, 2),
                            popular   |-> Finite(1, 1),
                            reference |-> Finite(2, 1)]
             daily_rate == fine_rates[book_type]
             fine == Times(daily_rate, days_overdue)
         IN Return(fine)

calculate_fine(self, days_overdue, book_type) ==
    IF days_overdue <= 0 THEN Return(Finite(0, 1))
    ELSE IF book_type \notin DOMAIN self.LOAN_PERIODS THEN Raise("ValueError")
    ELSE LET fine_rates == [regular   |-> Finite(1, 2),
                            popular   |-> Finite(1, 1),
                            reference |-> Finite(2, 1)]
             daily_rate == fine_rates[book_type]
             max_fine == Times(daily_rate, 10)
             fine == Times(daily_rate, days_overdue)
         IN Return(Min(fine, max_fine))

MaxDateStep == 4

MaxDueDays == 31

\* a datetime: the day as a proleptic Gregorian ordinal and the second of
\* that day
DateTime(d, sec) == [type |-> "datetime", day |-> d, second |-> sec]

\* datetimes from 2024-01-01 (ordinal 738886) on, at midnight, noon and the
\* last second of the day
DateTimes ==
    {DateTime(738886 + 14 * k, sec) : k \in 0..MaxDateStep,
                                      sec \in {0, 43200, 86399}}

\* values that are not datetime objects: a date, a string, None
NonDateTimes ==
    {[type |-> "date", day |-> 738886, second |-> 0],
     [type |-> "str", day |-> 0, second |-> 0],
     [type |-> "NoneType", day |-> 0, second |-> 0]}

LoanDates == DateTimes \cup NonDateTimes

DueDays == -2..MaxDueDays

\* loan_date + timedelta(days=n)
AddDays(loan_date, n) == DateTime(loan_date.day + n, loan_date.second)

calculate_due_date_ZeroDaysAccepted(self, loan_date, loan_days) ==
    IF loan_date.type # "datetime" THEN Raise("TypeError")
    ELSE IF loan_days < 0 THEN Raise("ValueError")
    ELSE Return(AddDays(loan_date, loan_days))

calculate_due_date(self, loan_date, loan_days) ==
    IF loan_date.type # "datetime" THEN Raise("TypeError")
    ELSE IF loan_days <= 0 THEN Raise("ValueError")
    ELSE Return(AddDays(loan_date, loan_days))

----------------------------------------------------------------------------
(* DiscountCalculator *)

MaxAmountStep == 6

\* purchase amounts in hundredths of a PLN: steps of 250 PLN and the values
\* around 0, 100, 500 and 1000 PLN
AmountsInHundredths ==
    {25000 * k : k \in 0..MaxAmountStep}
        \cup {-10000, -100, -1, 1, 5000, 9999, 10000, 10001, 49999, 50000,
              50001, 99999, 100000, 100001, 1000000}

Amounts == {Finite(h, 100) : h \in AmountsInHundredths}

calculate_discount_percentage_BoundaryInLowerTier(amount) ==
    IF Less(amount, Finite(0, 1)) THEN Raise("ValueError")
    ELSE IF LessEq(amount, Finite(100, 1)) THEN Return(0)
    ELSE IF LessEq(amount, Finite(500, 1)) THEN Return(5)
    ELSE IF LessEq(amount, Finite(1000, 1)) THEN Return(10)
    ELSE Return(15)

calculate_discount_percentage(amount) ==
    IF Less(amount, Finite(0, 1)) THEN Raise("ValueError")
    ELSE IF Less(amount, Finite(100, 1)) THEN Return(0)
    ELSE IF Less(amount, Finite(500, 1)) THEN Return(5)
    ELSE IF Less(amount, Finite(1000, 1)) THEN Return(10)
    ELSE Return(15)

----------------------------------------------------------------------------
(* GradeCalculator *)

MaxPoints == 110

MaxMaxPoints == 20

PointsValues == -2..MaxPoints

MaxPointsValues == (-2..MaxMaxPoints) \cup {100}

\* the five grades, the invalid-data marker and a string that is none of them
Grades == {"Invalid data", "Fail", "Poor", "Satisfactory", "Good",
           "Excellent", "Unknown"}

calculate_grade_BoundaryInLowerGrade(points, max_points) ==
    IF points < 0 \/ max_points <= 0 THEN Return("Invalid data")
    ELSE LET quotient == TrueDiv(points, max_points)
             percentage == Times(quotient, 100)
         IN IF LessEq(percentage, Finite(50, 1)) THEN Return("Fail")
            ELSE IF LessEq(percentage, Finite(60, 1)) THEN Return("Poor")
            ELSE IF LessEq(percentage, Finite(75, 1))
                 THEN Return("Satisfactory")
            ELSE IF LessEq(percentage, Finite(90, 1)) THEN Return("Good")
            ELSE Return("Excellent")

calculate_grade(points, max_points) ==
    IF points < 0 \/ max_points <= 0 THEN Return("Invalid data")
    ELSE LET quotient == TrueDiv(points, max_points)
             percentage == Times(quotient, 100)
         IN IF Less(percentage, Finite(50, 1)) THEN Return("Fail")
            ELSE IF Less(percentage, Finite(60, 1)) THEN Return("Poor")
            ELSE IF Less(percentage, Finite(75, 1)) THEN Return("Satisfactory")
            ELSE IF Less(percentage, Finite(90, 1)) THEN Return("Good")
            ELSE Return("Excellent")

has_passed(grade) ==
    IF grade = "Fail" \/ grade = "Invalid data"
    THEN Return(FALSE)
    ELSE Return(TRUE)

----------------------------------------------------------------------------
(* State machine *)

ApproveLoanCalls ==
    [op : {"approve_loan"}, credit_score : CreditScores,
     annual_income : Incomes, existing_debt : Debts, is_employed : BOOLEAN]

ValidateLoanDaysCalls ==
    [op : {"validate_loan_days"}, book_type : BookTypes, loan_days : LoanDays]

ValidateBookQuantityCalls ==
    [op : {"validate_book_quantity"}, user_type : UserTypes,
     current_borrowed : BorrowedCounts, additional_books : AdditionalCounts]

CanRenewLoanCalls ==
    [op : {"can_renew_loan"}, book_type : BookTypes,
     days_already_loaned : DaysLoaned, renewal_days : RenewalDays,
     previous_renewals : PreviousRenewals, is_requested : BOOLEAN]

CalculateDueDateCalls ==
    [op : {"calculate_due_date"}, loan_date : LoanDates, loan_days : DueDays]

CalculateFineCalls ==
    [op : {"calculate_fine"}, days_overdue : DaysOverdue,
     book_type : BookTypes]

CalculateDiscountPercentageCalls ==
    [op : {"calculate_discount_percentage"}, amount : Amounts]

CalculateGradeCalls ==
    [op : {"calculate_grade"}, points : PointsValues,
     max_points : MaxPointsValues]

HasPassedCalls == [op : {"has_passed"}, grade : Grades]

Calls ==
    ApproveLoanCalls \cup ValidateLoanDaysCalls \cup ValidateBookQuantityCalls
        \cup CanRenewLoanCalls \cup CalculateDueDateCalls
        \cup CalculateFineCalls \cup CalculateDiscountPercentageCalls
        \cup CalculateGradeCalls \cup HasPassedCalls

Pending == [kind |-> "pending", value |-> "none"]

\* no account and no loan is kept
NoBorrower == [user_type |-> "none", count |-> 0]

NoLoan == [book_type |-> "none", days_already_loaned |-> 0,
           previous_renewals |-> 0, is_requested |-> FALSE]

Init ==
    /\ min_credit_score = 650
    /\ min_income = 30000
    /\ max_debt_ratio = Finite(2, 5)
    /\ LOAN_PERIODS = [regular   |-> [min |-> 14, max |-> 30],
                       popular   |-> [min |-> 7,  max |-> 14],
                       reference |-> [min |-> 1,  max |-> 3]]
    /\ MAX_BOOKS = [regular |-> 5, premium |-> 10, researcher |-> 15]
    /\ MAX_RENEWALS = 2
    /\ call \in Calls
    /\ result = Pending
    /\ calls_issued = 1
    /\ borrower = NoBorrower
    /\ loan = NoLoan

ApproveLoan_StoresIncomeAsMinimum ==
    /\ call.op = "approve_loan"
    /\ result = Pending
    /\ result' = approve_loan(Approver, call.credit_score, call.annual_income,
                              call.existing_debt, call.is_employed)
    /\ min_income' = call.annual_income
    /\ UNCHANGED <<min_credit_score, max_debt_ratio, LOAN_PERIODS, MAX_BOOKS,
                   MAX_RENEWALS, call, calls_issued, ledger>>

ApproveLoan ==
    /\ call.op = "approve_loan"
    /\ result = Pending
    /\ result' = approve_loan(Approver, call.credit_score, call.annual_income,
                              call.existing_debt, call.is_employed)
    /\ UNCHANGED <<config, call, calls_issued, ledger>>

ValidateLoanDays ==
    /\ call.op = "validate_loan_days"
    /\ result = Pending
    /\ result' = validate_loan_days(Manager, call.book_type, call.loan_days)
    /\ UNCHANGED <<config, call, calls_issued, ledger>>

ValidateBookQuantity ==
    /\ call.op = "validate_book_quantity"
    /\ result = Pending
    /\ result' = validate_book_quantity(Manager, call.user_type,
                                        call.current_borrowed,
                                        call.additional_books)
    /\ UNCHANGED <<config, call, calls_issued, ledger>>

CanRenewLoan ==
    /\ call.op = "can_renew_loan"
    /\ result = Pending
    /\ result' = can_renew_loan(Manager, call.book_type,
                                call.days_already_loaned, call.renewal_days,
                                call.previous_renewals, call.is_requested)
    /\ UNCHANGED <<config, call, calls_issued, ledger>>

CalculateDueDate ==
    /\ call.op = "calculate_due_date"
    /\ result = Pending
    /\ result' = calculate_due_date(Manager, call.loan_date, call.loan_days)
    /\ UNCHANGED <<config, call, calls_issued, ledger>>

CalculateFine ==
    /\ call.op = "calculate_fine"
    /\ result = Pending
    /\ result' = calculate_fine(Manager, call.days_overdue, call.book_type)
    /\ UNCHANGED <<config, call, calls_issued, ledger>>

CalculateDiscountPercentage ==
    /\ call.op = "calculate_discount_percentage"
    /\ result = Pending
    /\ result' = calculate_discount_percentage(call.amount)
    /\ UNCHANGED <<config, call, calls_issued, ledger>>

CalculateGrade ==
    /\ call.op = "calculate_grade"
    /\ result = Pending
    /\ result' = calculate_grade(call.points, call.max_points)
    /\ UNCHANGED <<config, call, calls_issued, ledger>>

HasPassed ==
    /\ call.op = "has_passed"
    /\ result = Pending
    /\ result' = has_passed(call.grade)
    /\ UNCHANGED <<config, call, calls_issued, ledger>>

Next ==
    \/ ApproveLoan
    \/ ValidateLoanDays
    \/ ValidateBookQuantity
    \/ CanRenewLoan
    \/ CalculateDueDate
    \/ CalculateFine
    \/ CalculateDiscountPercentage
    \/ CalculateGrade
    \/ HasPassed

Spec == Init /\ [][Next]_vars

----------------------------------------------------------------------------
(* Repeated calls on the same objects *)

MaxCalls == 3

\* a sample of calls of every method, with every kind of outcome
RepeatCalls ==
    [op : {"approve_loan"}, credit_score : {600, 700, 780},
     annual_income : {0, 20000, 50000, 70000},
     existing_debt : {6000, 10500, 25000}, is_employed : BOOLEAN]
    \cup [op : {"validate_loan_days"}, book_type : BookTypes,
          loan_days : {0, 7, 14, 15, 30, 31}]
    \cup [op : {"validate_book_quantity"}, user_type : UserTypes,
          current_borrowed : {-1, 4, 9, 14}, additional_books : {0, 1, 2}]
    \cup [op : {"can_renew_loan"}, book_type : BookTypes,
          days_already_loaned : {-1, 10, 27}, renewal_days : {0, 3, 4},
          previous_renewals : {1, 2}, is_requested : BOOLEAN]
    \cup [op : {"calculate_due_date"}, loan_date : LoanDates,
          loan_days : {0, 14}]
    \cup [op : {"calculate_fine"}, days_overdue : {0, 9, 10, 11},
          book_type : BookTypes]
    \cup [op : {"calculate_discount_percentage"},
          amount : {Finite(-1, 100), Finite(9999, 100), Finite(50000, 100)}]
    \cup [op : {"calculate_grade"}, points : {-1, 9, 12, 18},
          max_points : {0, 20}]
    \cup [op : {"has_passed"}, grade : Grades]

InitRepeat ==
    /\ Init
    /\ call \in RepeatCalls

\* the caller, having got the outcome of a call, makes another call
Issue ==
    /\ result.kind # "pending"
    /\ calls_issued < MaxCalls
    /\ call' \in RepeatCalls
    /\ result' = Pending
    /\ calls_issued' = calls_issued + 1
    /\ UNCHANGED <<config, ledger>>

NextRepeat ==
    \/ Next
    \/ Issue

SpecRepeat == InitRepeat /\ [][NextRepeat]_vars

----------------------------------------------------------------------------
(* A borrower's account kept by a caller that borrows only when allowed *)

MaxBatch == 4

MaxBorrowRequests == 5

\* the objects as constructed, no call made yet
Constructed ==
    /\ min_credit_score = 650
    /\ min_income = 30000
    /\ max_debt_ratio = Finite(2, 5)
    /\ LOAN_PERIODS = [regular   |-> [min |-> 14, max |-> 30],
                       popular   |-> [min |-> 7,  max |-> 14],
                       reference |-> [min |-> 1,  max |-> 3]]
    /\ MAX_BOOKS = [regular |-> 5, premium |-> 10, researcher |-> 15]
    /\ MAX_RENEWALS = 2
    /\ call = [op |-> "none"]
    /\ result = [kind |-> "none", value |-> "none"]
    /\ calls_issued = 0

InitBorrow ==
    /\ Constructed
    /\ \E user_type \in DOMAIN MAX_BOOKS :
           \E count \in 0..MAX_BOOKS[user_type] :
               borrower = [user_type |-> user_type, count |-> count]
    /\ loan = NoLoan

\* the caller asks for additional_books more books and hands them out only
\* when validate_book_quantity returns True
Borrow ==
    \E additional_books \in 1..MaxBatch :
        LET outcome == validate_book_quantity(Manager, borrower.user_type,
                                              borrower.count,
                                              additional_books)
        IN /\ calls_issued < MaxBorrowRequests
           /\ call' = [op |-> "validate_book_quantity",
                       user_type |-> borrower.user_type,
                       current_borrowed |-> borrower.count,
                       additional_books |-> additional_books]
           /\ result' = outcome
           /\ calls_issued' = calls_issued + 1
           /\ borrower' =
                  IF outcome.kind = "return" /\ outcome.value
                  THEN [borrower EXCEPT !.count = @ + additional_books]
                  ELSE borrower
           /\ UNCHANGED <<config, loan>>

NextBorrow ==
    \/ Borrow

SpecBorrow == InitBorrow /\ [][NextBorrow]_vars

----------------------------------------------------------------------------
(* A loan kept by a caller that renews only when allowed *)

MaxRenewalRequest == 6

MaxRenewalRequests == 5

InitRenew ==
    /\ Constructed
    /\ borrower = NoBorrower
    /\ \E book_type \in DOMAIN LOAN_PERIODS :
           \E days \in 0..LOAN_PERIODS[book_type].max :
               \E is_requested \in BOOLEAN :
                   loan = [book_type           |-> book_type,
                           days_already_loaned |-> days,
                           previous_renewals   |-> 0,
                           is_requested        |-> is_requested]

\* the caller asks for renewal_days more days and extends the loan only
\* when can_renew_loan returns True
Renew ==
    \E renewal_days \in 0..MaxRenewalRequest :
        LET outcome == can_renew_loan(Manager, loan.book_type,
                                      loan.days_already_loaned, renewal_days,
                                      loan.previous_renewals,
                                      loan.is_requested)
        IN /\ calls_issued < MaxRenewalRequests
           /\ call' = [op |-> "can_renew_loan",
                       book_type |-> loan.book_type,
                       days_already_loaned |-> loan.days_already_loaned,
                       renewal_days |-> renewal_days,
                       previous_renewals |-> loan.previous_renewals,
                       is_requested |-> loan.is_requested]
           /\ result' = outcome
           /\ calls_issued' = calls_issued + 1
           /\ loan' =
                  IF outcome.kind = "return" /\ outcome.value
                  THEN [loan EXCEPT
                            !.days_already_loaned = @ + renewal_days,
                            !.previous_renewals = @ + 1]
                  ELSE loan
           /\ UNCHANGED <<config, borrower>>

\* another user requests the book
FlagRequest ==
    /\ ~loan.is_requested
    /\ loan' = [loan EXCEPT !.is_requested = TRUE]
    /\ UNCHANGED <<config, call, result, calls_issued, borrower>>

NextRenew ==
    \/ Renew
    \/ FlagRequest

SpecRenew == InitRenew /\ [][NextRenew]_vars

----------------------------------------------------------------------------
(* Properties *)

\* the call of method op has been carried out
Done(op) == call.op = op /\ result.kind # "pending"

Returned(v) == result.kind = "return" /\ result.value = v

Raised(e) == result.kind = "raise" /\ result.value = e

\* the exact quotient debt / income is at most n / d (income # 0, d > 0)
RatioAtMost(debt, income, n, d) ==
    \/ income > 0 /\ d * debt <= n * income
    \/ income < 0 /\ d * debt >= n * income

ClaimedPeriods == [regular   |-> <<14, 30>>,
                   popular   |-> <<7, 14>>,
                   reference |-> <<1, 3>>]

ClaimedMaxBooks == [regular |-> 5, premium |-> 10, researcher |-> 15]

\* C1: approve_loan returns Rejected whenever is_employed is false, whatever
\* the credit score, the income and the debt are.
C1_UnemployedRejected ==
    (Done("approve_loan") /\ ~call.is_employed) => Returned("Rejected")

C1_Witness ==
    /\ Done("approve_loan")
    /\ ~call.is_employed
    /\ call.credit_score >= 750
    /\ call.annual_income >= 60000
    /\ call.existing_debt = 0
    /\ Returned("Rejected")

\* C2: for an employed applicant with credit_score >= 750 the result is
\* Approved iff existing_debt / annual_income <= 0.4 (infinite for income 0)
\* and Manual Review otherwise; the income itself is not examined.
C2_HighScore ==
    (Done("approve_loan") /\ call.is_employed /\ call.credit_score >= 750)
        => IF RatioAtMost(call.existing_debt, call.annual_income, 2, 5)
           THEN Returned("Approved")
           ELSE Returned("Manual Review")

C2_Witness ==
    /\ Done("approve_loan")
    /\ call.is_employed
    /\ call.credit_score = 750
    /\ call.annual_income = 29999
    /\ call.existing_debt = 11999
    /\ Returned("Approved")

\* C3: for an employed applicant with 650 <= credit_score < 750 the result
\* is Approved iff annual_income >= 30000 and the ratio <= 0.4, and Manual
\* Review in every other case; the three thresholds are inclusive.
C3_MediumScore ==
    (Done("approve_loan") /\ call.is_employed
        /\ call.credit_score >= 650 /\ call.credit_score < 750)
        => IF call.annual_income >= 30000
              /\ RatioAtMost(call.existing_debt, call.annual_income, 2, 5)
           THEN Returned("Approved")
           ELSE Returned("Manual Review")

C3_Witness ==
    /\ Done("approve_loan")
    /\ call.is_employed
    /\ call.credit_score = 650
    /\ call.annual_income = 30000
    /\ call.existing_debt = 12000
    /\ Returned("Approved")

\* C4: for an employed applicant with credit_score < 650 the result is
\* Manual Review iff annual_income >= 60000 and the ratio <= 0.2, and
\* Rejected otherwise; it is never Approved.
C4_LowScore ==
    (Done("approve_loan") /\ call.is_employed /\ call.credit_score < 650)
        => IF call.annual_income >= 60000
              /\ RatioAtMost(call.existing_debt, call.annual_income, 1, 5)
           THEN Returned("Manual Review")
           ELSE Returned("Rejected")

C4_Witness ==
    /\ Done("approve_loan")
    /\ call.is_employed
    /\ call.credit_score = 649
    /\ call.annual_income = 60000
    /\ call.existing_debt = 12000
    /\ Returned("Manual Review")

\* C5: with annual_income = 0 the ratio is infinite whatever the debt is, so
\* the result is never Approved: an employed applicant gets Manual Review
\* with credit_score >= 650 and Rejected with credit_score < 650.
C5_ZeroIncome ==
    (Done("approve_loan") /\ call.annual_income = 0)
        => /\ ~Returned("Approved")
           /\ (call.is_employed /\ call.credit_score >= 650)
                  => Returned("Manual Review")
           /\ (call.is_employed /\ call.credit_score < 650)
                  => Returned("Rejected")

C5_Witness ==
    /\ Done("approve_loan")
    /\ call.annual_income = 0
    /\ call.existing_debt <= 0
    /\ call.is_employed
    /\ call.credit_score >= 750
    /\ Returned("Manual Review")

\* C6: approve_loan is total: for every input it raises nothing and returns
\* one of Approved, Rejected, Manual Review.
C6_Total ==
    Done("approve_loan")
        => /\ result.kind = "return"
           /\ result.value \in {"Approved", "Rejected", "Manual Review"}

C6_Witness ==
    /\ Done("approve_loan")
    /\ call.credit_score < 0
    /\ call.annual_income = 0
    /\ call.existing_debt < 0
    /\ result.kind = "return"

\* C7: for a known book type validate_loan_days returns True iff
\* min <= loan_days <= max of that type (regular 14-30, popular 7-14,
\* reference 1-3), both bounds inclusive.
C7_LoanDaysRange ==
    (Done("validate_loan_days") /\ call.book_type \in DOMAIN ClaimedPeriods)
        => Returned(/\ ClaimedPeriods[call.book_type][1] <= call.loan_days
                    /\ call.loan_days <= ClaimedPeriods[call.book_type][2])

C7_Witness ==
    /\ Done("validate_loan_days")
    /\ call.book_type = "popular"
    /\ call.loan_days = 14
    /\ Returned(TRUE)

\* C8: for a known user type, current_borrowed >= 0 and additional_books >= 1
\* validate_book_quantity returns True iff current_borrowed + additional_books
\* <= the maximum of the user type (regular 5, premium 10, researcher 15).
C8_QuantityLimit ==
    (Done("validate_book_quantity")
        /\ call.user_type \in DOMAIN ClaimedMaxBooks
        /\ call.current_borrowed >= 0 /\ call.additional_books >= 1)
        => Returned(call.current_borrowed + call.additional_books
                        <= ClaimedMaxBooks[call.user_type])

C8_Witness ==
    /\ Done("validate_book_quantity")
    /\ call.user_type = "researcher"
    /\ call.current_borrowed = 14
    /\ call.additional_books = 1
    /\ Returned(TRUE)

ValidRenewalArguments ==
    /\ call.book_type \in DOMAIN ClaimedPeriods
    /\ call.days_already_loaned >= 0
    /\ call.renewal_days > 0
    /\ call.previous_renewals >= 0

\* C11 as stated: can_renew_loan returns False whenever is_requested is
\* true, regardless of any other argument value.
C11_RequestedAlwaysFalse ==
    (Done("can_renew_loan") /\ call.is_requested) => Returned(FALSE)

\* C11 amended: for valid arguments (known book type, days_already_loaned
\* >= 0, renewal_days > 0, previous_renewals >= 0) can_renew_loan returns
\* False whenever is_requested is true, whatever the renewal count and the
\* resulting period are; invalid arguments raise ValueError first.
C11_RequestedFalseWhenValid ==
    (Done("can_renew_loan") /\ call.is_requested)
        => IF ValidRenewalArguments
           THEN Returned(FALSE)
           ELSE Raised("ValueError")

C11_Witness ==
    /\ Done("can_renew_loan")
    /\ call.is_requested
    /\ call.book_type = "regular"
    /\ call.days_already_loaned = 15
    /\ call.renewal_days = 5
    /\ call.previous_renewals = 0
    /\ Returned(FALSE)

\* C12: for valid arguments can_renew_loan returns True iff is_requested is
\* false and previous_renewals < 2 and days_already_loaned + renewal_days
\* <= the maximum loan period of the book type; the minimum plays no role.
C12_RenewalRule ==
    (Done("can_renew_loan") /\ ValidRenewalArguments)
        => Returned(/\ ~call.is_requested
                    /\ call.previous_renewals < 2
                    /\ call.days_already_loaned + call.renewal_days
                           <= ClaimedPeriods[call.book_type][2])

\* a renewal granted although the total stays below the minimum loan period
C12_Witness ==
    /\ Done("can_renew_loan")
    /\ call.book_type = "regular"
    /\ call.days_already_loaned + call.renewal_days
           < ClaimedPeriods["regular"][1]
    /\ call.previous_renewals = 1
    /\ ~call.is_requested
    /\ Returned(TRUE)

\* C13: can_renew_loan fails with an error and returns no boolean whenever
\* the book type is unknown, or days_already_loaned < 0, or renewal_days
\* <= 0, or previous_renewals < 0, before any renewal rule is evaluated
\* (so also when is_requested is true or previous_renewals >= 2).
C13_RenewalErrors ==
    (Done("can_renew_loan") /\ ~ValidRenewalArguments)
        => result.kind = "raise"

C13_Witness ==
    /\ Done("can_renew_loan")
    /\ call.is_requested
    /\ call.previous_renewals >= 2
    /\ call.days_already_loaned >= 0
    /\ call.renewal_days > 0
    /\ call.book_type = "magazine"
    /\ result.kind = "raise"

\* daily fine rates in grosz (hundredths of a PLN)
ClaimedRateGrosz == [regular |-> 50, popular |-> 100, reference |-> 200]

\* the returned float is g hundredths
ReturnedGrosz(g) ==
    /\ result.kind = "return"
    /\ result.value.kind = "fin"
    /\ result.value.num * 100 = g * result.value.den

\* C14: calculate_fine returns 0 and raises nothing whenever days_overdue
\* <= 0, for every book_type including an unknown one; the unknown-type
\* error is produced only when days_overdue > 0.
C14_NotOverdueIsFree ==
    Done("calculate_fine")
        => /\ call.days_overdue <= 0 => ReturnedGrosz(0)
           /\ result.kind = "raise"
                  => /\ call.days_overdue > 0
                     /\ call.book_type \notin DOMAIN ClaimedRateGrosz

C14_Witness ==
    /\ Done("calculate_fine")
    /\ call.days_overdue <= 0
    /\ call.book_type = "magazine"
    /\ ReturnedGrosz(0)

\* C15: for days_overdue > 0 and a known book type with daily rate r
\* (regular 0.50, popular 1.00, reference 2.00) calculate_fine returns
\* min(days_overdue * r, 10 * r).
C15_FineCapped ==
    (Done("calculate_fine") /\ call.days_overdue > 0
        /\ call.book_type \in DOMAIN ClaimedRateGrosz)
        => ReturnedGrosz(IF call.days_overdue <= 10
                         THEN call.days_overdue
                                  * ClaimedRateGrosz[call.book_type]
                         ELSE 10 * ClaimedRateGrosz[call.book_type])

C15_Witness ==
    /\ Done("calculate_fine")
    /\ call.days_overdue = 20
    /\ call.book_type = "regular"
    /\ ReturnedGrosz(500)

\* C16: calculate_due_date returns the point in time exactly loan_days whole
\* days after loan_date when loan_date is a datetime and loan_days > 0; in
\* every other case it fails with an error and returns no date.
C16_DueDate ==
    Done("calculate_due_date")
        => IF call.loan_date.type = "datetime" /\ call.loan_days > 0
           THEN /\ result.kind = "return"
                /\ result.value.type = "datetime"
                /\ result.value.day - call.loan_date.day = call.loan_days
                /\ result.value.second = call.loan_date.second
           ELSE result.kind = "raise"

C16_Witness ==
    /\ Done("calculate_due_date")
    /\ call.loan_date.type = "datetime"
    /\ call.loan_date.second = 86399
    /\ call.loan_days = 14
    /\ result.kind = "return"
    /\ result.value.day = call.loan_date.day + 14

\* the amount of the call in hundredths of a PLN
AmountInHundredths == (call.amount.num * 100) \div call.amount.den

\* C18: calculate_discount_percentage raises ValueError for amount < 0 and
\* otherwise returns 0 below 100, 5 from 100 to below 500, 10 from 500 to
\* below 1000 and 15 from 1000 on.
C18_DiscountTiers ==
    Done("calculate_discount_percentage")
        => LET h == AmountInHundredths
           IN IF h < 0 THEN Raised("ValueError")
              ELSE IF h < 10000 THEN Returned(0)
              ELSE IF h < 50000 THEN Returned(5)
              ELSE IF h < 100000 THEN Returned(10)
              ELSE Returned(15)

C18_Witness ==
    /\ Done("calculate_discount_percentage")
    /\ AmountInHundredths = 50000
    /\ Returned(10)

\* the grade claimed for points out of max_points
ClaimedGrade(points, max_points) ==
    IF points < 0 \/ max_points <= 0 THEN "Invalid data"
    ELSE IF points * 100 < 50 * max_points THEN "Fail"
    ELSE IF points * 100 < 60 * max_points THEN "Poor"
    ELSE IF points * 100 < 75 * max_points THEN "Satisfactory"
    ELSE IF points * 100 < 90 * max_points THEN "Good"
    ELSE "Excellent"

\* C19: calculate_grade returns Invalid data when points < 0 or max_points
\* <= 0 and otherwise maps points / max_points * 100 to Fail below 50, Poor
\* below 60, Satisfactory below 75, Good below 90 and Excellent from 90 on
\* (above 100 too); has_passed is False exactly for Fail and Invalid data.
C19_Grades ==
    /\ Done("calculate_grade")
           => Returned(ClaimedGrade(call.points, call.max_points))
    /\ Done("has_passed")
           => Returned(call.grade \notin {"Fail", "Invalid data"})

C19_Witness ==
    /\ Done("calculate_grade")
    /\ call.points = 12
    /\ call.max_points = 20
    /\ Returned("Satisfactory")

\* the configuration of freshly constructed objects
FreshApprover == [min_credit_score |-> 650,
                  min_income       |-> 30000,
                  max_debt_ratio   |-> Finite(2, 5)]

FreshManager ==
    [LOAN_PERIODS |-> [regular   |-> [min |-> 14, max |-> 30],
                       popular   |-> [min |-> 7,  max |-> 14],
                       reference |-> [min |-> 1,  max |-> 3]],
     MAX_BOOKS    |-> [regular |-> 5, premium |-> 10, researcher |-> 15],
     MAX_RENEWALS |-> 2]

\* the outcome of call c executed alone, on freshly constructed objects
AloneResult(c) ==
    CASE c.op = "approve_loan" ->
             approve_loan(FreshApprover, c.credit_score, c.annual_income,
                          c.existing_debt, c.is_employed)
      [] c.op = "validate_loan_days" ->
             validate_loan_days(FreshManager, c.book_type, c.loan_days)
      [] c.op = "validate_book_quantity" ->
             validate_book_quantity(FreshManager, c.user_type,
                                    c.current_borrowed, c.additional_books)
      [] c.op = "can_renew_loan" ->
             can_renew_loan(FreshManager, c.book_type, c.days_already_loaned,
                            c.renewal_days, c.previous_renewals,
                            c.is_requested)
      [] c.op = "calculate_due_date" ->
             calculate_due_date(FreshManager, c.loan_date, c.loan_days)
      [] c.op = "calculate_fine" ->
             calculate_fine(FreshManager, c.days_overdue, c.book_type)
      [] c.op = "calculate_discount_percentage" ->
             calculate_discount_percentage(c.amount)
      [] c.op = "calculate_grade" -> calculate_grade(c.points, c.max_points)
      [] c.op = "has_passed" -> has_passed(c.grade)

SameOutcome(a, b) == a.kind = b.kind /\ a.value = b.value

Rank(decision) ==
    CASE decision = "Rejected" -> 0
      [] decision = "Manual Review" -> 1
      [] decision = "Approved" -> 2

\* the outcome of the call made, with the credit score replaced by score
WithScore(score) ==
    approve_loan(Approver, score, call.annual_income, call.existing_debt,
                 call.is_employed)

\* C20: with income, debt and employment fixed and Rejected < Manual Review
\* < Approved, a higher credit score never gives a worse outcome; whoever
\* gets Manual Review below 650 gets Approved with any score of 650 or more.
C20_Monotone ==
    (Done("approve_loan") /\ result.kind = "return")
        => \A score \in CreditScores :
               score >= call.credit_score
                   => /\ WithScore(score).kind = "return"
                      /\ Rank(WithScore(score).value) >= Rank(result.value)
                      /\ (/\ call.credit_score < 650
                          /\ score >= 650
                          /\ Returned("Manual Review"))
                             => WithScore(score).value = "Approved"

C20_Witness ==
    /\ Done("approve_loan")
    /\ call.credit_score = 600
    /\ call.annual_income = 70000
    /\ call.existing_debt = 10500
    /\ Returned("Manual Review")
    /\ WithScore(650).value = "Approved"

\* C21: if the count starts between 0 and MAX_BOOKS[user_type] and books are
\* handed out only when validate_book_quantity returns True, the count never
\* exceeds the maximum of the user type, and once it equals the maximum
\* every further request is denied and leaves the count as it is.
C21_CountWithinLimit ==
    /\ [](borrower.count <= ClaimedMaxBooks[borrower.user_type])
    /\ [][borrower.count = ClaimedMaxBooks[borrower.user_type]
              => /\ result'.kind = "return"
                 /\ result'.value = FALSE
                 /\ borrower' = borrower]_vars

\* a request denied to a borrower who reached the maximum by borrowing
C21_Witness ==
    /\ calls_issued >= 2
    /\ call.op = "validate_book_quantity"
    /\ call.current_borrowed = ClaimedMaxBooks[borrower.user_type]
    /\ borrower.count = ClaimedMaxBooks[borrower.user_type]
    /\ Returned(FALSE)

\* C22: for a loan that starts with previous_renewals = 0 and
\* days_already_loaned between 0 and the maximum period of its book type and
\* is renewed only when can_renew_loan returns True, previous_renewals <= 2
\* and days_already_loaned <= the maximum period in every state, and no
\* renewal is granted once another user's request is flagged.
C22_RenewalsWithinLimits ==
    /\ [](/\ loan.previous_renewals <= 2
          /\ loan.days_already_loaned <= ClaimedPeriods[loan.book_type][2])
    /\ [][loan.is_requested
              => /\ loan'.previous_renewals = loan.previous_renewals
                 /\ loan'.days_already_loaned = loan.days_already_loaned
                 /\ loan'.is_requested]_vars

\* a third renewal refused after two were granted, with room left in the
\* period and no request by another user
C22_Witness ==
    /\ loan.previous_renewals = 2
    /\ ~loan.is_requested
    /\ call.op = "can_renew_loan"
    /\ call.previous_renewals = 2
    /\ call.renewal_days > 0
    /\ call.days_already_loaned + call.renewal_days
           <= ClaimedPeriods[loan.book_type][2]
    /\ Returned(FALSE)

====
